---- MODULE Spec2Model ----
(***************************************************************************)
(* Artistic Studio: the Gemini transform adapter (services/geminiService)  *)
(* and the App component that calls it (src/App.tsx).                      *)
(*                                                                         *)
(* A nullable JavaScript value is modelled as a sequence of length 0 or 1: *)
(* null/undefined is << >>, a present value v is <<v>>.                    *)
(***************************************************************************)
EXTENDS Naturals, Sequences, FiniteSets, TLC

VARIABLES
    originalImage,      \* App state: string | null
    transformedImage,   \* App state: string | null
    selectedStyle,      \* App state: ArtisticStyle
    outfitDescription,  \* App state: string
    mode,               \* App state: 'style' | 'outfit'
    isProcessing,       \* App state: boolean
    error,              \* App state: string | null
    reading,            \* files handed to a FileReader whose onload has not run yet
    inflight,           \* adapter invocations awaiting generateContent, oldest first
    producedBy,         \* the invocation whose result transformedImage holds, or null
                        \* (observation only)
    event               \* what the last step did (observation only)

appVars == <<originalImage, transformedImage, selectedStyle, outfitDescription,
             mode, isProcessing, error, reading>>
vars == <<originalImage, transformedImage, selectedStyle, outfitDescription,
          mode, isProcessing, error, reading, inflight, producedBy, event>>

----------------------------------------------------------------------------
(* Bounds of the model *)

\* at most this many adapter invocations await their response at once
MaxInFlight == 2

----------------------------------------------------------------------------
(* JavaScript values *)

null == << >>
Some(v) == <<v>>
\* JavaScript truthiness of a string | null
Truthy(v) == v # null /\ v[1] # ""

CharAt(s, i) == SubSeq(s, i, i)

Contains(s, sub) ==
    \E i \in 0..Len(s) : i + Len(sub) <= Len(s) /\ SubSeq(s, i + 1, i + Len(sub)) = sub

IsWhitespace(c) == c \in {" ", "\t", "\n", "\r"}

RECURSIVE trimStart(_)
trimStart(s) ==
    IF Len(s) > 0 /\ IsWhitespace(CharAt(s, 1)) THEN trimStart(SubSeq(s, 2, Len(s))) ELSE s

RECURSIVE trimEnd(_)
trimEnd(s) ==
    IF Len(s) > 0 /\ IsWhitespace(CharAt(s, Len(s)))
    THEN trimEnd(SubSeq(s, 1, Len(s) - 1))
    ELSE s

\* String.prototype.trim
trim(s) == trimEnd(trimStart(s))

\* String.prototype.split with a one-character separator
RECURSIVE split(_, _)
split(s, sep) ==
    LET hits == {i \in 1..Len(s) : CharAt(s, i) = sep}
    IN  IF hits = {} THEN <<s>>
        ELSE LET i == CHOOSE k \in hits : \A h \in hits : k <= h
             IN  <<SubSeq(s, 1, i - 1)>> \o split(SubSeq(s, i + 1, Len(s)), sep)

\* s.match(/:(.*?);/)?.[1] : the text between the first ':' that has a ';' after
\* it and the nearest such ';' ; undefined when there is no match
matchMime(s) ==
    LET starts == {i \in 1..Len(s) :
                     CharAt(s, i) = ":" /\ \E j \in (i + 1)..Len(s) : CharAt(s, j) = ";"}
    IN  IF starts = {} THEN null
        ELSE LET i == CHOOSE k \in starts : \A h \in starts : k <= h
                 ends == {j \in (i + 1)..Len(s) : CharAt(s, j) = ";"}
                 j == CHOOSE k \in ends : \A h \in ends : k <= h
             IN  Some(SubSeq(s, i + 1, j - 1))

----------------------------------------------------------------------------
(* geminiService: the prompt catalog and the two adapter operations *)

ArtisticStyle == {"watercolor", "oil", "charcoal", "cyberpunk", "pencil", "popart"}

STYLE_PROMPTS ==
    [watercolor |-> "Transform this image into a vibrant watercolor splash effect sketch. The style should be artistic, with visible brush strokes, paint drips, and a beautiful blend of colors, while maintaining the core subject of the original photo.",
     oil        |-> "Transform this image into a classic oil painting. Use thick, visible brush strokes, rich textures, and deep, vibrant colors. The final result should look like a masterpiece on canvas.",
     charcoal   |-> "Transform this image into a rough charcoal sketch. Use black and white tones, expressive hand-drawn lines, and smudged shading to create a dramatic, artistic feel.",
     cyberpunk  |-> "Transform this image into a neon cyberpunk style. Use high contrast, glowing edges, and a palette dominated by electric pink, blue, and purple. Add a futuristic, digital glitch aesthetic.",
     pencil     |-> "Transform this image into a detailed pencil drawing. Use fine graphite lines, realistic shading, and cross-hatching to create a classic, hand-sketched look on paper.",
     popart     |-> "Transform this image into a bold pop art style. Use vibrant, flat colors, thick outlines, and halftone dot patterns reminiscent of 1960s comic book art."]

\* STYLE_PROMPTS[style]: a property read, undefined for a key the object lacks
promptOf(style) ==
    IF style \in DOMAIN STYLE_PROMPTS THEN Some(STYLE_PROMPTS[style]) ELSE null

\* A Part of the wire format: every field is optional
inlinePart(data, mimeType) ==
    [inlineData |-> Some([data |-> data, mimeType |-> mimeType]), text |-> null]
textPart(text) == [inlineData |-> null, text |-> text]

\* mutant: the prompt of one style is sent for every style
transformRequestFixedPrompt(base64Image, mimeType, style) ==
    [model    |-> "gemini-2.5-flash-image",
     contents |-> [parts |-> <<inlinePart(base64Image, mimeType),
                               textPart(promptOf("watercolor"))>>]]

\* the argument of ai.models.generateContent in transformToArtisticStyle
transformRequest(base64Image, mimeType, style) ==
    [model    |-> "gemini-2.5-flash-image",
     contents |-> [parts |-> <<inlinePart(base64Image, mimeType),
                               textPart(promptOf(style))>>]]

\* mutant: the description is trimmed before it is interpolated
outfitPromptTrimmed(outfitDescription_) ==
    "Please swap the outfit of the person in this image with the following description: "
    \o trim(outfitDescription_)
    \o ". Keep the person's identity, pose, and background as consistent as possible. Only change the clothing."

\* the template literal of swapOutfit
outfitPrompt(outfitDescription_) ==
    "Please swap the outfit of the person in this image with the following description: "
    \o outfitDescription_
    \o ". Keep the person's identity, pose, and background as consistent as possible. Only change the clothing."

\* mutant: the text part is put before the image part
swapRequestTextFirst(base64Image, mimeType, outfitDescription_) ==
    [model    |-> "gemini-2.5-flash-image",
     contents |-> [parts |-> <<textPart(Some(outfitPrompt(outfitDescription_))),
                               inlinePart(base64Image, mimeType)>>]]

\* the argument of ai.models.generateContent in swapOutfit
swapRequest(base64Image, mimeType, outfitDescription_) ==
    [model    |-> "gemini-2.5-flash-image",
     contents |-> [parts |-> <<inlinePart(base64Image, mimeType),
                               textPart(Some(outfitPrompt(outfitDescription_)))>>]]

\* mutant: the request is sent a second time
issueTwice(request) == <<request, request>>

\* the requests one invocation puts on the wire: one generateContent call
issue(request) == <<request>>

\* transformToArtisticStyle up to its await
transformToArtisticStyle(base64Image, mimeType, style) ==
    [fn          |-> "transformToArtisticStyle",
     base64Image |-> base64Image,
     mimeType    |-> mimeType,
     arg         |-> style,
     sent        |-> issue(transformRequest(base64Image, mimeType, style))]

\* swapOutfit up to its await
swapOutfit(base64Image, mimeType, outfitDescription_) ==
    [fn          |-> "swapOutfit",
     base64Image |-> base64Image,
     mimeType    |-> mimeType,
     arg         |-> outfitDescription_,
     sent        |-> issue(swapRequest(base64Image, mimeType, outfitDescription_))]

\* response.candidates?.[0]?.content?.parts || []
partsOf(response) ==
    IF response.candidates = null THEN << >>
    ELSE LET candidates == response.candidates[1]
         IN  IF Len(candidates) = 0 THEN << >>
             ELSE LET content == candidates[1].content
                  IN  IF content = null THEN << >>
                      ELSE IF content[1].parts = null THEN << >>
                           ELSE content[1].parts[1]

\* `data:${part.inlineData.mimeType};base64,${part.inlineData.data}`
dataUri(inlineData) == "data:" \o inlineData.mimeType \o ";base64," \o inlineData.data

\* mutant: the loop keeps the last part with inlineData instead of returning at the first
RECURSIVE lastInlineImage(_)
lastInlineImage(parts) ==
    IF Len(parts) = 0 THEN null
    ELSE LET rest == lastInlineImage(Tail(parts))
         IN  IF rest # null THEN rest
             ELSE IF Head(parts).inlineData # null
                  THEN Some(dataUri(Head(parts).inlineData[1]))
                  ELSE null

\* the for loop over the parts: return at the first part with inlineData, else null
RECURSIVE firstInlineImage(_)
firstInlineImage(parts) ==
    IF Len(parts) = 0 THEN null
    ELSE IF Head(parts).inlineData # null
         THEN Some(dataUri(Head(parts).inlineData[1]))
         ELSE firstInlineImage(Tail(parts))

\* mutant: response.candidates[0].content.parts without the optional chaining, so
\* a missing link throws a TypeError inside the try block
transformResolvedUnchained(response) ==
    IF \/ response.candidates = null
       \/ Len(response.candidates[1]) = 0
       \/ response.candidates[1][1].content = null
       \/ response.candidates[1][1].content[1].parts = null
    THEN [kind |-> "rejected", value |-> null,
          cause |-> Some("TypeError: Cannot read properties of undefined")]
    ELSE [kind |-> "resolved", value |-> firstInlineImage(partsOf(response)), cause |-> null]

\* transformToArtisticStyle once generateContent has fulfilled: the loop, return null
transformResolved(response) ==
    [kind |-> "resolved", value |-> firstInlineImage(partsOf(response)), cause |-> null]

\* transformToArtisticStyle's catch block: console.error, then throw error
transformRejected(cause) ==
    [kind |-> "rejected", value |-> null, cause |-> Some(cause)]

\* swapOutfit once generateContent has fulfilled: the loop, return null
swapResolved(response) ==
    [kind |-> "resolved", value |-> firstInlineImage(partsOf(response)), cause |-> null]

\* mutant: the catch block logs and returns null instead of rethrowing
swapRejectedSwallowed(cause) ==
    [kind |-> "resolved", value |-> null, cause |-> null]

\* swapOutfit's catch block: console.error, then throw error
swapRejected(cause) ==
    [kind |-> "rejected", value |-> null, cause |-> Some(cause)]

----------------------------------------------------------------------------
(* Inputs *)

\* files the user can drop: File.type and the base64 of the content
Files ==
    {[type |-> "image/png",  base64 |-> "iVBORw0KGgo="],
     [type |-> "image/jpeg", base64 |-> "/9j/4AAQ"]}

\* FileReader.readAsDataURL
readAsDataURL(file) == "data:" \o file.type \o ";base64," \o file.base64

\* texts the user can leave in the textarea
Descriptions == {"", "  ", "red coat", " a hat "}

\* causes generateContent can fail with
Causes == {"TypeError: Failed to fetch", "ApiError: 429"}

generatedPng  == [inlineData |-> Some([data |-> "R0lGOD", mimeType |-> "image/png"]), text |-> null]
generatedWebp == [inlineData |-> Some([data |-> "UklGRg", mimeType |-> "image/webp"]), text |-> null]
commentary    == [inlineData |-> null, text |-> Some("Here is your image.")]

candidate(parts) == [content |-> Some([parts |-> Some(parts)])]
response(candidates) == [candidates |-> Some(candidates)]

\* responses generateContent can fulfil with
Responses ==
    {[candidates |-> null],
     response(<< >>),
     response(<<[content |-> null]>>),
     response(<<[content |-> Some([parts |-> null])]>>),
     response(<<candidate(<< >>)>>),
     response(<<candidate(<<commentary>>)>>),
     response(<<candidate(<<generatedPng>>)>>),
     response(<<candidate(<<commentary, generatedWebp>>)>>),
     response(<<candidate(<<commentary, generatedPng, generatedWebp>>),
                candidate(<<generatedWebp>>)>>),
     response(<<candidate(<<commentary>>), candidate(<<generatedWebp>>)>>),
     response(<<candidate(<<generatedWebp, commentary>>), candidate(<<generatedPng>>)>>)}

----------------------------------------------------------------------------
(* App *)

STYLES == <<"watercolor", "oil", "charcoal", "cyberpunk", "pencil", "popart">>

Init ==
    /\ originalImage = null
    /\ transformedImage = null
    /\ selectedStyle = "watercolor"
    /\ outfitDescription = ""
    /\ mode = "style"
    /\ isProcessing = FALSE
    /\ error = null
    /\ reading = {}
    /\ inflight = << >>
    /\ producedBy = null
    /\ event = [op |-> "init"]

Remove(seq, i) == SubSeq(seq, 1, i - 1) \o SubSeq(seq, i + 1, Len(seq))

\* onDrop: start reading the first accepted file; the dropzone is part of the
\* upload view, which is rendered while originalImage is falsy
onDrop(acceptedFiles) ==
    /\ ~Truthy(originalImage)
    /\ IF Len(acceptedFiles) = 0
       THEN UNCHANGED reading
       ELSE reading' = reading \cup {acceptedFiles[1]}
    /\ event' = [op |-> "onDrop"]
    /\ UNCHANGED <<originalImage, transformedImage, producedBy, selectedStyle, outfitDescription,
                   mode, isProcessing, error, inflight>>

\* reader.onload
readerOnload(file) ==
    /\ file \in reading
    /\ reading' = reading \ {file}
    /\ originalImage' = Some(readAsDataURL(file))
    /\ transformedImage' = null
    /\ producedBy' = null
    /\ error' = null
    /\ event' = [op |-> "onload"]
    /\ UNCHANGED <<selectedStyle, outfitDescription, mode, isProcessing, inflight>>

\* the two header buttons: setMode(m); setTransformedImage(null)
setMode(m) ==
    /\ mode' = m
    /\ transformedImage' = null
    /\ producedBy' = null
    /\ event' = [op |-> "setMode"]
    /\ UNCHANGED <<originalImage, selectedStyle, outfitDescription, isProcessing,
                   error, reading, inflight>>

\* reset, behind the Start Over button, rendered while originalImage is truthy
reset ==
    /\ Truthy(originalImage)
    /\ originalImage' = null
    /\ transformedImage' = null
    /\ producedBy' = null
    /\ error' = null
    /\ event' = [op |-> "reset"]
    /\ UNCHANGED <<selectedStyle, outfitDescription, mode, isProcessing, reading, inflight>>

\* a style button of the upload view
uploadSelectStyle(i) ==
    /\ ~Truthy(originalImage)
    /\ mode = "style"
    /\ selectedStyle' = STYLES[i]
    /\ event' = [op |-> "selectStyle"]
    /\ UNCHANGED <<originalImage, transformedImage, producedBy, outfitDescription, mode,
                   isProcessing, error, reading, inflight>>

\* the textarea of the upload view
uploadDescribe(value) ==
    /\ ~Truthy(originalImage)
    /\ mode = "outfit"
    /\ outfitDescription' = value
    /\ event' = [op |-> "describe"]
    /\ UNCHANGED <<originalImage, transformedImage, producedBy, selectedStyle, mode,
                   isProcessing, error, reading, inflight>>

\* a style button of the editor view
editorSelectStyle(i) ==
    /\ Truthy(originalImage)
    /\ mode = "style"
    /\ selectedStyle' = STYLES[i]
    /\ transformedImage' = null
    /\ producedBy' = null
    /\ event' = [op |-> "selectStyle"]
    /\ UNCHANGED <<originalImage, outfitDescription, mode, isProcessing, error,
                   reading, inflight>>

\* the textarea of the editor view
editorDescribe(value) ==
    /\ Truthy(originalImage)
    /\ mode = "outfit"
    /\ outfitDescription' = value
    /\ transformedImage' = null
    /\ producedBy' = null
    /\ event' = [op |-> "describe"]
    /\ UNCHANGED <<originalImage, selectedStyle, mode, isProcessing, error,
                   reading, inflight>>

\* const [mimeInfo, base64Data] = originalImage.split(',')
mimeInfoOf(url) == split(url, ",")[1]
base64DataOf(url) == split(url, ",")[2]

\* mimeInfo.match(/:(.*?);/)?.[1] || 'image/png'
mimeTypeOf(url) ==
    LET m == matchMime(mimeInfoOf(url))
    IN  IF Truthy(m) THEN m[1] ELSE "image/png"

\* an adapter invocation made by handleTransform, with the mode and selectedStyle
\* its closure holds
appCall(call) ==
    [call |-> call, caller |-> "App",
     closure |-> Some([mode |-> mode, selectedStyle |-> selectedStyle])]

\* mutant: the check without the trim
isBlankNoTrim(description) == description = ""

\* !outfitDescription.trim()
isBlank(description) == trim(description) = ""

\* mutant: the result is stored without being tested
resultIsImageAlways(result) == TRUE

\* if (result)
resultIsImage(result) == Truthy(result)

\* handleTransform up to its await (or to its early return)
handleTransform ==
    IF ~Truthy(originalImage)
    THEN /\ event' = [op |-> "handleTransform", branch |-> "noImage"]
         /\ UNCHANGED <<appVars, inflight, producedBy>>
    ELSE LET base64Data == base64DataOf(originalImage[1])
             mimeType == mimeTypeOf(originalImage[1])
         IN  /\ UNCHANGED <<originalImage, transformedImage, producedBy, selectedStyle,
                            outfitDescription, mode, reading>>
             /\ IF mode = "style"
                THEN /\ isProcessing' = TRUE
                     /\ error' = null
                     /\ inflight' = Append(inflight,
                            appCall(transformToArtisticStyle(base64Data, mimeType, selectedStyle)))
                     /\ event' = [op |-> "handleTransform", branch |-> "invoked"]
                ELSE IF isBlank(outfitDescription)
                     THEN /\ error' = Some("Please provide an outfit description.")
                          /\ isProcessing' = FALSE
                          /\ UNCHANGED inflight
                          /\ event' = [op |-> "handleTransform", branch |-> "blank"]
                     ELSE /\ isProcessing' = TRUE
                          /\ error' = null
                          /\ inflight' = Append(inflight,
                                 appCall(swapOutfit(base64Data, mimeType, outfitDescription)))
                          /\ event' = [op |-> "handleTransform", branch |-> "invoked"]

\* mutant: the Regenerate button without its disabled attribute
regenerateEnabledAlways == TRUE

\* the Regenerate button carries disabled={isProcessing}
regenerateEnabled == ~isProcessing

\* the placeholder of the result panel shows the spinner while isProcessing, else
\* the error with Try again, else the Apply / Swap Outfit button
placeholderShows ==
    IF isProcessing THEN "spinner" ELSE IF Truthy(error) THEN "error" ELSE "ready"

\* the Try again link
tryAgain ==
    /\ Truthy(originalImage)
    /\ ~Truthy(transformedImage)
    /\ placeholderShows = "error"
    /\ handleTransform

\* the Apply ... Effect / Swap Outfit button
apply ==
    /\ Truthy(originalImage)
    /\ ~Truthy(transformedImage)
    /\ placeholderShows = "ready"
    /\ handleTransform

\* the Regenerate button
regenerate ==
    /\ Truthy(originalImage)
    /\ Truthy(transformedImage)
    /\ regenerateEnabled
    /\ handleTransform

\* mutant: setIsProcessing(false) at the end of the try block instead of in a
\* finally, so a rejection leaves isProcessing set
handleTransformResumeNoFinally(entry, outcome) ==
    /\ IF outcome.kind = "resolved"
       THEN /\ isProcessing' = FALSE
            /\ IF resultIsImage(outcome.value)
               THEN /\ transformedImage' = outcome.value
                    /\ producedBy' = Some(entry)
                    /\ UNCHANGED error
               ELSE /\ error' = Some("Failed to generate the "
                                     \o (IF entry.closure[1].mode = "style"
                                         THEN entry.closure[1].selectedStyle
                                         ELSE "outfit swap")
                                     \o ". Please try again.")
                    /\ UNCHANGED <<transformedImage, producedBy>>
       ELSE /\ error' = Some("An error occurred while processing the image. Please check your connection and try again.")
            /\ UNCHANGED <<transformedImage, producedBy, isProcessing>>
    /\ UNCHANGED <<originalImage, selectedStyle, outfitDescription, mode, reading>>

\* handleTransform after its await: the result branches, the catch, the finally
handleTransformResume(entry, outcome) ==
    LET closure == entry.closure[1]
    IN  /\ IF outcome.kind = "resolved"
           THEN IF resultIsImage(outcome.value)
                THEN /\ transformedImage' = outcome.value
                     /\ producedBy' = Some(entry)
                     /\ UNCHANGED error
                ELSE /\ error' = Some("Failed to generate the "
                                      \o (IF closure.mode = "style"
                                          THEN closure.selectedStyle
                                          ELSE "outfit swap")
                                      \o ". Please try again.")
                     /\ UNCHANGED <<transformedImage, producedBy>>
           ELSE /\ error' = Some("An error occurred while processing the image. Please check your connection and try again.")
                /\ UNCHANGED <<transformedImage, producedBy>>
        /\ isProcessing' = FALSE
        /\ UNCHANGED <<originalImage, selectedStyle, outfitDescription, mode, reading>>

----------------------------------------------------------------------------
(* A caller other than App: the adapter called with arguments of its own *)

Payloads ==
    {[base64 |-> "iVBORw0KGgo=", mimeType |-> "image/png"],
     [base64 |-> "/9j/4AAQ", mimeType |-> "image/jpeg"]}

directCall(call) == [call |-> call, caller |-> "direct", closure |-> null]

directInFlight == Len(SelectSeq(inflight, LAMBDA e : e.caller = "direct"))

callTransformToArtisticStyle(image, style) ==
    /\ directInFlight < MaxInFlight
    /\ inflight' = Append(inflight,
           directCall(transformToArtisticStyle(image.base64, image.mimeType, style)))
    /\ event' = [op |-> "call"]
    /\ UNCHANGED <<appVars, producedBy>>

callSwapOutfit(image, description) ==
    /\ directInFlight < MaxInFlight
    /\ inflight' = Append(inflight,
           directCall(swapOutfit(image.base64, image.mimeType, description)))
    /\ event' = [op |-> "call"]
    /\ UNCHANGED <<appVars, producedBy>>

----------------------------------------------------------------------------
(* The remote service settles an invocation *)

settle(i, reply, outcome) ==
    /\ inflight' = Remove(inflight, i)
    /\ event' = [op |-> "settled", entry |-> inflight[i], reply |-> reply,
                 outcome |-> outcome]
    /\ IF inflight[i].caller = "App"
       THEN handleTransformResume(inflight[i], outcome)
       ELSE UNCHANGED <<appVars, producedBy>>

\* generateContent fulfils with a response
remoteResponds(i, r) ==
    settle(i, [ok |-> TRUE, response |-> Some(r), cause |-> null],
           IF inflight[i].call.fn = "swapOutfit" THEN swapResolved(r) ELSE transformResolved(r))

\* generateContent throws or rejects with a cause
remoteFails(i, cause) ==
    settle(i, [ok |-> FALSE, response |-> null, cause |-> Some(cause)],
           IF inflight[i].call.fn = "swapOutfit" THEN swapRejected(cause)
           ELSE transformRejected(cause))

----------------------------------------------------------------------------
(* Specifications *)

AppNext ==
    \/ \E file \in Files : onDrop(<<file>>)
    \/ onDrop(<< >>)
    \/ \E file \in Files : readerOnload(file)
    \/ \E m \in {"style", "outfit"} : setMode(m)
    \/ reset
    \/ \E i \in 1..Len(STYLES) : uploadSelectStyle(i)
    \/ \E value \in Descriptions : uploadDescribe(value)
    \/ \E i \in 1..Len(STYLES) : editorSelectStyle(i)
    \/ \E value \in Descriptions : editorDescribe(value)
    \/ tryAgain
    \/ apply
    \/ regenerate

RemoteNext ==
    \/ \E i \in 1..Len(inflight), r \in Responses : remoteResponds(i, r)
    \/ \E i \in 1..Len(inflight), cause \in Causes : remoteFails(i, cause)

DirectNext ==
    \/ \E image \in Payloads, style \in ArtisticStyle : callTransformToArtisticStyle(image, style)
    \/ \E image \in Payloads, d \in Descriptions : callSwapOutfit(image, d)

\* the App and the remote service
Next == AppNext \/ RemoteNext
Spec == Init /\ [][Next]_vars

\* handleTransform called while originalImage is falsy: no rendered control does
\* so, the guard on its first line is what answers such a call
handleTransformWithoutImage ==
    /\ ~Truthy(originalImage)
    /\ handleTransform

\* the App, with handleTransform callable at any time without an image, and a
\* remote service that settles every request it was sent
LiveNext == Next \/ handleTransformWithoutImage
LiveSpec == Init /\ [][LiveNext]_vars /\ WF_vars(RemoteNext)

\* the adapter alone, under an arbitrary caller
AdapterNext == DirectNext \/ RemoteNext
AdapterSpec == Init /\ [][AdapterNext]_vars

----------------------------------------------------------------------------
(* Properties of the adapter *)

\* the last step settled an invocation whose remote call succeeded
Fulfilled == event.op = "settled" /\ event.reply.ok

\* the last step settled an invocation whose remote call failed
Failed == event.op = "settled" /\ ~event.reply.ok

\* the response has a first candidate with content and a part list
HasPartList(r) ==
    /\ r.candidates # null
    /\ Len(r.candidates[1]) >= 1
    /\ r.candidates[1][1].content # null
    /\ r.candidates[1][1].content[1].parts # null

PartList(r) == r.candidates[1][1].content[1].parts[1]

InlineIndexes(ps) == {k \in 1..Len(ps) : ps[k].inlineData # null}

Least(S) == CHOOSE k \in S : \A h \in S : k <= h

HasInlineImage(r) == HasPartList(r) /\ InlineIndexes(PartList(r)) # {}

\* C1: when the remote call of either operation succeeds and the first candidate's
\* part list holds a part with an inline payload, the call resolves to exactly
\* data:<mediaType>;base64,<bytes> of the lowest-indexed such part of the first
\* candidate, whatever precedes it, follows it or sits in other candidates.
C1_FirstInlineImageReturned ==
    Fulfilled =>
        LET r == event.reply.response[1]
        IN  HasInlineImage(r) =>
                LET img == PartList(r)[Least(InlineIndexes(PartList(r)))].inlineData[1]
                IN  event.outcome =
                        [kind  |-> "resolved",
                         value |-> Some("data:" \o img.mimeType \o ";base64," \o img.data),
                         cause |-> null]

\* swapOutfit got a response whose first candidate holds a text part, then two
\* images, and whose second candidate holds another image
C1_Witness ==
    /\ Fulfilled
    /\ event.entry.call.fn = "swapOutfit"
    /\ event.reply.response[1] =
           response(<<candidate(<<commentary, generatedPng, generatedWebp>>),
                      candidate(<<generatedWebp>>)>>)
    /\ event.outcome.value = Some("data:image/png;base64,R0lGOD")

\* C2: when the remote call of either operation succeeds and the first candidate
\* holds no inline image part (text only, no parts, no content, no candidates),
\* the call resolves to null; it does not reject.
C2_NoImageResolvesNull ==
    Fulfilled =>
        (~HasInlineImage(event.reply.response[1]) =>
            event.outcome = [kind |-> "resolved", value |-> null, cause |-> null])

\* transformToArtisticStyle got a response without candidates
C2_Witness ==
    /\ Fulfilled
    /\ event.entry.call.fn = "transformToArtisticStyle"
    /\ event.reply.response[1].candidates = null
    /\ event.outcome.kind = "resolved"
    /\ event.outcome.value = null

\* C3: when the remote call of either operation fails with cause E, the call
\* rejects with that same E.
C3_FailurePropagatesCause ==
    Failed =>
        event.outcome = [kind |-> "rejected", value |-> null, cause |-> event.reply.cause]

\* swapOutfit's remote call failed with a 429
C3_Witness ==
    /\ Failed
    /\ event.entry.call.fn = "swapOutfit"
    /\ event.outcome.kind = "rejected"
    /\ event.outcome.cause = Some("ApiError: 429")

\* every invocation, awaited or just settled, has put exactly one request on the wire
OneRequestEach ==
    /\ \A i \in 1..Len(inflight) : Len(inflight[i].call.sent) = 1
    /\ event.op = "settled" => Len(event.entry.call.sent) = 1

\* a step that invokes the adapter adds one invocation with one request and nothing
\* else; a step that settles one removes it and leaves every other invocation, with
\* its request, as it was: nothing is sent again
NoResend ==
    /\ event'.op = "call" =>
           /\ Len(inflight') = Len(inflight) + 1
           /\ SubSeq(inflight', 1, Len(inflight)) = inflight
           /\ Len(inflight'[Len(inflight')].call.sent) = 1
    /\ event'.op = "settled" =>
           \E i \in 1..Len(inflight) :
               /\ event'.entry = inflight[i]
               /\ inflight' = Remove(inflight, i)

\* C4: every invocation of either operation issues exactly one outbound request,
\* whatever its outcome; settling an invocation sends nothing again and leaves the
\* other invocations untouched.
C4_OneRequestPerInvocation == []OneRequestEach /\ [][NoResend]_vars

\* an invocation was rejected while another one is still awaited
C4_Witness ==
    /\ Failed
    /\ Len(event.entry.call.sent) = 1
    /\ Len(inflight) = 1
    /\ inflight[1].call.fn # event.entry.call.fn

----------------------------------------------------------------------------
(* Properties of the App as a caller of the adapter *)

\* at most one invocation is awaited, and isProcessing is set while it is
AtMostOneInFlight ==
    /\ Len(inflight) <= 1
    /\ Len(inflight) = 1 => isProcessing

\* a handleTransform that reaches the adapter starts from isProcessing = false,
\* with nothing awaited
TriggeredWhileIdle ==
    (event'.op = "handleTransform" /\ event'.branch = "invoked") =>
        (~isProcessing /\ inflight = << >>)

\* C5: under any interleaving of upload, Start Over, mode switch, style selection,
\* description edit, Apply/Swap, Try again and Regenerate with pending responses,
\* at most one adapter request is in flight, and a handleTransform that reaches
\* the adapter is only triggered while isProcessing is false.
C5_SingleRequestInFlight == []AtMostOneInFlight /\ [][TriggeredWhileIdle]_vars

\* a request is pending while the user has since uploaded another image and
\* switched the mode
C5_Witness ==
    /\ Len(inflight) = 1
    /\ Truthy(originalImage)
    /\ base64DataOf(originalImage[1]) # inflight[1].call.base64Image
    /\ mode # inflight[1].closure[1].mode
    /\ isProcessing

WhitespaceOnly(d) == \A k \in 1..Len(d) : IsWhitespace(CharAt(d, k))

\* no invocation of swapOutfit made by handleTransform carries an empty or
\* whitespace-only description
NoBlankSwapFromApp ==
    \A i \in 1..Len(inflight) :
        (inflight[i].caller = "App" /\ inflight[i].call.fn = "swapOutfit") =>
            ~WhitespaceOnly(inflight[i].call.arg)

\* swapOutfit itself sends one request, carrying the description, for every
\* description, the empty and the whitespace-only ones included
AdapterSendsAnyDescription ==
    \A image \in Payloads, d \in Descriptions :
        LET call == swapOutfit(image.base64, image.mimeType, d)
        IN  /\ Len(call.sent) = 1
            /\ \E k \in 1..Len(call.sent[1].contents.parts) :
                   /\ call.sent[1].contents.parts[k].text # null
                   /\ Contains(call.sent[1].contents.parts[k].text[1], d)

\* a handleTransform with an image, in outfit mode, with a blank description issues
\* no request, sets the error message and leaves isProcessing false
BlankHandled ==
    (/\ event'.op = "handleTransform"
     /\ Truthy(originalImage)
     /\ mode = "outfit"
     /\ WhitespaceOnly(outfitDescription)) =>
        /\ inflight' = inflight
        /\ error' = Some("Please provide an outfit description.")
        /\ ~isProcessing'

\* C6: in outfit mode handleTransform never invokes swapOutfit with an empty or
\* whitespace-only description: no request is issued, the error becomes the
\* 'provide an outfit description' message and isProcessing is false afterwards;
\* swapOutfit itself checks nothing and sends a request for any description.
C6_BlankDescriptionStopsAtCaller ==
    [](NoBlankSwapFromApp /\ AdapterSendsAnyDescription) /\ [][BlankHandled]_vars

\* Swap Outfit was pressed with a whitespace-only description
C6_Witness ==
    /\ event.op = "handleTransform"
    /\ event.branch = "blank"
    /\ mode = "outfit"
    /\ outfitDescription = "  "
    /\ error = Some("Please provide an outfit description.")
    /\ ~isProcessing
    /\ inflight = << >>

\* what handleTransform does with each outcome of the invocation it awaited
OutcomeHandled ==
    (event'.op = "settled" /\ event'.entry.caller = "App") =>
        LET o == event'.outcome
        IN  /\ o.kind \in {"resolved", "rejected"}
            /\ (o.kind = "resolved" /\ o.value = null) =>
                   /\ error' # null
                   /\ Contains(error'[1], "Failed to generate")
                   /\ transformedImage' = transformedImage
            /\ (o.kind = "resolved" /\ o.value # null) =>
                   /\ transformedImage' = o.value
                   /\ error = null
                   /\ error' = null
            /\ o.kind = "rejected" =>
                   /\ error' # null
                   /\ ~Contains(error'[1], "Failed to generate")
                   /\ transformedImage' = transformedImage

\* C7: when the call awaited by handleTransform resolves to null, a 'Failed to
\* generate ...' error is set and transformedImage is unchanged; when it resolves
\* to a data URI, transformedImage becomes that URI and the error stays null; when
\* it rejects, another non-null error is set and transformedImage is unchanged.
C7_ThreeOutcomesHandled == [][OutcomeHandled]_vars

\* a Regenerate came back without an image: the error is set and the image shown
\* before is still there
C7_Witness ==
    /\ event.op = "settled"
    /\ event.entry.caller = "App"
    /\ event.outcome.kind = "resolved"
    /\ event.outcome.value = null
    /\ error = Some("Failed to generate the outfit swap. Please try again.")
    /\ transformedImage # null
    /\ ~isProcessing

----------------------------------------------------------------------------
(* Properties of the requests *)

RequestOf(entry) == entry.call.sent[1]

\* C8: the request of either operation holds exactly two parts: first the inline
\* part with the caller's bytes and media type, then one text part with the
\* instruction; both operations name the same model.
C8_RequestShape ==
    /\ \A i \in 1..Len(inflight) :
           LET c == inflight[i].call
               ps == RequestOf(inflight[i]).contents.parts
           IN  /\ Len(ps) = 2
               /\ ps[1] = [inlineData |-> Some([data |-> c.base64Image,
                                                mimeType |-> c.mimeType]),
                           text |-> null]
               /\ ps[2].inlineData = null
               /\ ps[2].text # null
               /\ ps[2].text[1] # ""
    /\ \A i, j \in 1..Len(inflight) :
           RequestOf(inflight[i]).model = RequestOf(inflight[j]).model

\* one invocation of each operation is awaited, for images of different types
C8_Witness ==
    /\ Len(inflight) = 2
    /\ inflight[1].call.fn = "transformToArtisticStyle"
    /\ inflight[2].call.fn = "swapOutfit"
    /\ inflight[1].call.mimeType = "image/jpeg"
    /\ inflight[2].call.mimeType = "image/png"

\* C9: the prompt catalog has an entry for each of watercolor, oil, charcoal,
\* cyberpunk, pencil and popart, hence for every id of STYLES; each entry is a
\* non-empty string containing "Transform"; transformToArtisticStyle sends exactly
\* the entry of the requested style as its text part.
C9_PromptCatalogTotal ==
    /\ \A s \in {"watercolor", "oil", "charcoal", "cyberpunk", "pencil", "popart"} :
           /\ s \in DOMAIN STYLE_PROMPTS
           /\ STYLE_PROMPTS[s] # ""
           /\ Contains(STYLE_PROMPTS[s], "Transform")
    /\ \A k \in 1..Len(STYLES) : STYLES[k] \in DOMAIN STYLE_PROMPTS
    /\ \E k \in 1..Len(STYLES) : STYLES[k] = selectedStyle
    /\ \A i \in 1..Len(inflight) :
           inflight[i].call.fn = "transformToArtisticStyle" =>
               /\ inflight[i].call.arg \in DOMAIN STYLE_PROMPTS
               /\ RequestOf(inflight[i]).contents.parts[2].text
                      = Some(STYLE_PROMPTS[inflight[i].call.arg])

\* the App awaits a pop art transformation
C9_Witness ==
    /\ Len(inflight) = 1
    /\ inflight[1].caller = "App"
    /\ inflight[1].call.fn = "transformToArtisticStyle"
    /\ inflight[1].call.arg = "popart"
    /\ Contains(RequestOf(inflight[1]).contents.parts[2].text[1], "bold pop art style")

\* the text t is the description d put at offset k into the instruction of the
\* empty description
EmbeddedAt(t, d, k) ==
    /\ k + Len(d) <= Len(t)
    /\ SubSeq(t, k + 1, k + Len(d)) = d
    /\ SubSeq(t, 1, k) \o SubSeq(t, k + Len(d) + 1, Len(t)) = outfitPrompt("")

\* C10: for every description passed to swapOutfit the instruction sent holds the
\* description verbatim, as a contiguous substring, inside the fixed template that
\* asks to keep identity, pose and background and to change only the clothing.
C10_DescriptionVerbatim ==
    /\ Contains(outfitPrompt(""), "identity, pose, and background")
    /\ Contains(outfitPrompt(""), "Only change the clothing")
    /\ \A i \in 1..Len(inflight) :
           inflight[i].call.fn = "swapOutfit" =>
               LET t == RequestOf(inflight[i]).contents.parts[2].text[1]
               IN  \E k \in 0..Len(t) : EmbeddedAt(t, inflight[i].call.arg, k)

\* swapOutfit awaits a request for a description with blanks around it
C10_Witness ==
    /\ Len(inflight) >= 1
    /\ inflight[1].call.fn = "swapOutfit"
    /\ inflight[1].call.arg = " a hat "
    /\ Contains(RequestOf(inflight[1]).contents.parts[2].text[1], "description:  a hat . Keep")

----------------------------------------------------------------------------
(* Properties of the App state *)

\* the invocation was made by handleTransform with the image, the mode and the
\* style or description the App holds now
MadeWithCurrentInputs(entry) ==
    /\ Truthy(originalImage)
    /\ entry.call.base64Image = base64DataOf(originalImage[1])
    /\ entry.call.mimeType = mimeTypeOf(originalImage[1])
    /\ entry.closure[1].mode = mode
    /\ IF mode = "style"
       THEN /\ entry.call.fn = "transformToArtisticStyle"
            /\ entry.call.arg = selectedStyle
       ELSE /\ entry.call.fn = "swapOutfit"
            /\ entry.call.arg = outfitDescription

\* C11: a non-null transformedImage was produced by a request made with the
\* current originalImage, the current mode and the current selectedStyle (style
\* mode) or outfitDescription (outfit mode); transformedImage is null whenever
\* originalImage is null; also when the response of a request arrives after an
\* upload, Start Over, a mode switch or a change of style or description.
C11_TransformedMatchesInputs ==
    /\ transformedImage # null =>
           (producedBy # null /\ MadeWithCurrentInputs(producedBy[1]))
    /\ originalImage = null => transformedImage = null

\* isProcessing is set exactly while an invocation made by handleTransform is awaited
ProcessingIffAwaiting == isProcessing <=> (Len(inflight) >= 1)

\* what a step of handleTransform does to isProcessing: a start with an image sets
\* it and issues a request (or, in outfit mode with a blank description, leaves it
\* false and issues none); a completion clears it whatever the outcome; a start
\* without an image changes no state and issues no request
StartAndCompletion ==
    /\ (event'.op = "handleTransform" /\ Truthy(originalImage)) =>
           IF mode = "outfit" /\ WhitespaceOnly(outfitDescription)
           THEN ~isProcessing' /\ inflight' = inflight
           ELSE isProcessing' /\ Len(inflight') = Len(inflight) + 1
    /\ (event'.op = "handleTransform" /\ ~Truthy(originalImage)) =>
           UNCHANGED <<appVars, inflight>>
    /\ (event'.op = "settled" /\ event'.entry.caller = "App") =>
           /\ event'.outcome.kind \in {"resolved", "rejected"}
           /\ ~isProcessing'

\* C12: isProcessing is true exactly while a handleTransform invocation is between
\* its start and its completion: a start with an image sets it, and when the remote
\* call resolves or rejects it becomes false again on every path (image, null
\* result, rejection, blank description); a handleTransform without an image
\* changes no state and issues no request.
C12_ProcessingBracketsInvocation ==
    /\ []ProcessingIffAwaiting
    /\ [][StartAndCompletion]_vars
    /\ (isProcessing ~> ~isProcessing)

\* the awaited call was rejected and isProcessing is false again
C12_Witness ==
    /\ event.op = "settled"
    /\ event.entry.caller = "App"
    /\ event.outcome.kind = "rejected"
    /\ ~isProcessing
    /\ inflight = << >>
    /\ error # null

====
